---------------------------- MODULE Spec2Model ----------------------------
(***************************************************************************)
(* DataHealthChecker (scripts/check_data_health.py): the dataset built by *)
(* the constructor and the checks that scan it.                            *)
(*                                                                         *)
(* A DataFrame is a record [nlevels, index, cols]: nlevels is the number   *)
(* of levels of its row index (1: the RangeIndex pd.read_csv gives, 2: the *)
(* (instrument, datetime) MultiIndex D.features gives), index the sequence *)
(* of row keys and cols a function from the column names present to the   *)
(* column's cells.  A cell is <<>> (NaN) or <<v>> with v a natural number. *)
(* A string that the code looks into (an instrument key, a formatted date) *)
(* is a sequence of one-character strings.  A Timestamp is a pair          *)
(* <<day, ns>>: day 0 is 1970-01-01, day d >= 1 the day d of January 2020, *)
(* and ns the nanoseconds after that day's midnight.                       *)
(***************************************************************************)
EXTENDS Integers, Sequences, FiniteSets, TLC

VARIABLES
    mode,        \* which data source the constructor was given: "csv" or "qlib"
    data,        \* self.data: the dict, as the sequence of its items in insertion order
    config,      \* self.large_step_threshold_price / _volume, self.missing_data_num
    call,        \* the last check called and its instruments argument
    result,      \* what that call returned or raised
    calendar,    \* the provider's calendar resource calendars/<freq>.txt, as the process finds it
    ran,         \* the checks the last call executed, in order, each with its result
    log,         \* the logger records of the last call
    stdout       \* what the last call printed

vars == <<mode, data, config, call, result, calendar, ran, log, stdout>>

(***************************************************************************)
(* Bounds of the model.                                                    *)
(***************************************************************************)
MaxInstruments == 2      \* items in self.data
MaxRows == 3             \* rows of a table
MaxTolerance == 1        \* missing_data_num ranges over 0..MaxTolerance
MaxDays == 10            \* dates of the trading calendar

(***************************************************************************)
(* Strings.                                                                *)
(***************************************************************************)
IsSubstring(p, s) ==
    \E i \in 0..(Len(s) - Len(p)) : \A j \in 1..Len(p) : s[i + j] = p[j]

EndsWith(s, suffix) ==
    /\ Len(s) >= Len(suffix)
    /\ \A j \in 1..Len(suffix) : s[Len(s) - Len(suffix) + j] = suffix[j]

DotCsv == <<".", "c", "s", "v">>

\* The three literals of check_missing_factor.
Code000300 == <<"0", "0", "0", "3", "0", "0">>
Code000903 == <<"0", "0", "0", "9", "0", "3">>
Code000905 == <<"0", "0", "0", "9", "0", "5">>

Digits == <<"0", "1", "2", "3", "4", "5", "6", "7", "8", "9">>

\* A Timestamp is the day d of January 2020; strftime("%Y-%m-%d") of it.
Strftime(d) ==
    <<"2", "0", "2", "0", "-", "0", "1", "-", Digits[(d \div 10) + 1], Digits[(d % 10) + 1]>>

(***************************************************************************)
(* pandas: cells, columns, null counts, pct_change.                        *)
(***************************************************************************)
NaN == <<>>

IsNull(c) == c = NaN

required_columns == <<"open", "high", "low", "close", "volume">>

RequiredSet == {required_columns[i] : i \in 1..Len(required_columns)}

AllColumns == RequiredSet \cup {"factor"}

Columns(df) == DOMAIN df.cols

NRows(df) == Len(df.index)

\* df.isnull().sum(): the null count of every column of df.
IsnullSum(df) ==
    [c \in Columns(df) |-> Cardinality({i \in 1..Len(df.cols[c]) : IsNull(df.cols[c][i])})]

\* Some cell of the column is NaN.
IsnullAny(df, col) == \E i \in 1..Len(df.cols[col]) : IsNull(df.cols[col][i])

\* df[col].isnull().all()
IsnullAll(df, col) == \A i \in 1..Len(df.cols[col]) : IsNull(df.cols[col][i])

\* A fractional change is NaN or <<n, d>>, the quotient n/d; <<1, 0>> is inf.
Inf == <<1, 0>>

Abs(x) == IF x < 0 THEN -x ELSE x

\* Strict order of two changes that are not NaN.
Gt(a, b) == a[1] * b[2] > b[1] * a[2]

\* The last cell at or before row t that is not NaN (NaN if there is none).
RECURSIVE LastValid(_, _)
LastValid(s, t) ==
    IF t = 0 THEN NaN
    ELSE IF ~IsNull(s[t]) THEN s[t]
    ELSE LastValid(s, t - 1)

\* pct_change with gaps padded: each cell is compared with the last cell
\* before it that is not NaN.
PctChangePad(s, t) ==
    IF t = 1 \/ IsNull(LastValid(s, t)) \/ IsNull(LastValid(s, t - 1)) THEN NaN
    ELSE IF LastValid(s, t - 1)[1] = 0
    THEN (IF LastValid(s, t)[1] = 0 THEN NaN ELSE Inf)
    ELSE <<Abs(LastValid(s, t)[1] - LastValid(s, t - 1)[1]), LastValid(s, t - 1)[1]>>

\* One element of Series.pct_change(fill_method=None).abs(): |cur / prev - 1|.
PctChangeAt(s, t) ==
    IF t = 1 \/ IsNull(s[t]) \/ IsNull(s[t - 1]) THEN NaN
    ELSE LET cur == s[t][1]
             prev == s[t - 1][1]
         IN IF prev = 0 THEN (IF cur = 0 THEN NaN ELSE Inf)
            ELSE <<Abs(cur - prev), prev>>

PctChange(s) == [t \in 1..Len(s) |-> PctChangeAt(s, t)]

\* Series.max(): NaN entries are skipped; NaN when nothing is left.
SeriesMax(p) ==
    LET valid == {t \in 1..Len(p) : ~IsNull(p[t])}
    IN IF valid = {} THEN NaN
       ELSE p[CHOOSE t \in valid : \A u \in valid : ~Gt(p[u], p[t])]

\* pct_change.max() > threshold, and pct_change > threshold elementwise:
\* a comparison with NaN is False.
Exceeds(x, threshold) == ~IsNull(x) /\ Gt(x, threshold)

\* The positions kept by pct_change[pct_change > threshold], in order.
LargeSteps(p, threshold) == {t \in 1..Len(p) : Exceeds(p[t], threshold)}

Min(S) == CHOOSE x \in S : \A y \in S : x <= y

(***************************************************************************)
(* The scope of a check: self.data, or its items whose key is in the       *)
(* instruments argument.  The argument is [given |-> FALSE] (None) or      *)
(* [given |-> TRUE, keys |-> a set of keys].                               *)
(***************************************************************************)
NoFilter == [given |-> FALSE, keys |-> {}]

Filter(S) == [given |-> TRUE, keys |-> S]

\* A filter that lets every item through.
InScopeAny(item, instruments) == TRUE

InScope(item, instruments) == item.key \in instruments.keys

DataToCheck(d, instruments) ==
    IF ~instruments.given THEN d
    ELSE SelectSeq(d, LAMBDA item : InScope(item, instruments))

KeysOf(d) == {d[i].key : i \in 1..Len(d)}

\* A check that would keep the filtered dict as its dataset.
SelfDataFiltered(d, instruments) == DataToCheck(d, instruments)

\* A check that would take the items it scans out of the dataset.
SelfDataConsumed(d, instruments) ==
    SelectSeq(d, LAMBDA item : instruments.given /\ ~InScope(item, instruments))

\* self.data after a check: data_to_check is a local name, bound to self.data
\* or to a new dict; self.data is not assigned and no table is written to.
SelfData(d, instruments) == d

(***************************************************************************)
(* What a check gives back: None, a DataFrame (its rows, in order), or an  *)
(* exception that leaves the call.                                         *)
(***************************************************************************)
ReturnNone == [kind |-> "None", rows |-> <<>>, exc |-> ""]

ReturnFrame(rows) == [kind |-> "DataFrame", rows |-> rows, exc |-> ""]

Raise(e) == [kind |-> "raise", rows |-> <<>>, exc |-> e]

\* The DataFrame returned whether or not it has rows.
FrameAlways(acc, lens, rows) ==
    IF acc.exc # "" THEN Raise(acc.exc)
    ELSE IF \E a \in lens, b \in lens : a # b THEN Raise("ValueError")
    ELSE ReturnFrame(rows)

\* result_df = pd.DataFrame(result_dict).set_index("instruments");
\* return it unless it is empty.  lens are the lengths of the dict's lists:
\* lists of different lengths make the DataFrame constructor raise.
FrameOrNone(acc, lens, rows) ==
    IF acc.exc # "" THEN Raise(acc.exc)
    ELSE IF \E a \in lens, b \in lens : a # b THEN Raise("ValueError")
    ELSE IF rows = <<>> THEN ReturnNone
    ELSE ReturnFrame(rows)

(***************************************************************************)
(* check_missing_data                                                      *)
(***************************************************************************)
\* df.isnull().sum()[df.isnull().sum() > self.missing_data_num].index.tolist()
MissingDataColumns(df, missing_data_num) ==
    {c \in Columns(df) : IsnullSum(df)[c] > missing_data_num}

\* df.isnull().sum()[col] for the five labels: a label the Series lacks raises.
LookupRaises(df) == ~(RequiredSet \subseteq Columns(df))

MissingDataInit ==
    [instruments |-> <<>>, open |-> <<>>, high |-> <<>>, low |-> <<>>,
     close |-> <<>>, volume |-> <<>>, exc |-> ""]

\* The body of the loop over data_to_check.items().
MissingDataBody(acc, item, missing_data_num) ==
    LET sum == IsnullSum(item.df)
    IN IF MissingDataColumns(item.df, missing_data_num) = {} THEN acc
       ELSE IF LookupRaises(item.df) THEN [acc EXCEPT !.exc = "KeyError"]
       ELSE [acc EXCEPT !.instruments = Append(@, item.key),
                        !.open = Append(@, sum["open"]),
                        !.high = Append(@, sum["high"]),
                        !.low = Append(@, sum["low"]),
                        !.close = Append(@, sum["close"]),
                        !.volume = Append(@, sum["volume"])]

RECURSIVE MissingDataLoop(_, _, _, _)
MissingDataLoop(items, i, acc, missing_data_num) ==
    IF i > Len(items) \/ acc.exc # "" THEN acc
    ELSE MissingDataLoop(items, i + 1,
                         MissingDataBody(acc, items[i], missing_data_num),
                         missing_data_num)

MissingDataRows(acc) ==
    [i \in 1..Len(acc.instruments) |->
        [instruments |-> acc.instruments[i], open |-> acc.open[i],
         high |-> acc.high[i], low |-> acc.low[i], close |-> acc.close[i],
         volume |-> acc.volume[i]]]

MissingDataFrame(acc) ==
    FrameOrNone(acc,
                {Len(acc.instruments), Len(acc.open), Len(acc.high),
                 Len(acc.low), Len(acc.close), Len(acc.volume)},
                IF acc.exc = "" THEN MissingDataRows(acc) ELSE <<>>)

check_missing_data(d, cfg, instruments) ==
    MissingDataFrame(MissingDataLoop(DataToCheck(d, instruments), 1, MissingDataInit,
                                     cfg.missing_data_num))

(***************************************************************************)
(* check_large_step_changes                                                *)
(***************************************************************************)
\* self.large_step_threshold_volume if col == "volume" else ..._price
ThresholdOf(cfg, col) ==
    IF col = "volume" THEN cfg.large_step_threshold_volume
    ELSE cfg.large_step_threshold_price

\* The row key at the largest change instead of the first change kept.
LargestStep(df, p, threshold) ==
    df.index[CHOOSE t \in LargeSteps(p, threshold) : p[t] = SeriesMax(p)]

\* large_steps.index.to_list()[0]: the row key of the first kept position.
FirstLargeStep(df, p, threshold) == df.index[Min(LargeSteps(p, threshold))]

StepChangesInit ==
    [instruments |-> <<>>, col_name |-> <<>>, date |-> <<>>, pct_change |-> <<>>,
     exc |-> ""]

\* The body of the loop over the five columns, for one column of one item.
\* [0][1] of a row key that is an integer (a one-level index) raises TypeError.
StepChangesColumn(acc, item, col, cfg) ==
    IF col \notin Columns(item.df) THEN acc
    ELSE LET pct_change == PctChange(item.df.cols[col])
             threshold == ThresholdOf(cfg, col)
         IN IF ~Exceeds(SeriesMax(pct_change), threshold) THEN acc
            ELSE IF item.df.nlevels < 2 THEN [acc EXCEPT !.exc = "TypeError"]
            ELSE [acc EXCEPT
                     !.instruments = Append(@, item.key),
                     !.col_name = Append(@, col),
                     !.date = Append(@, Strftime(FirstLargeStep(item.df, pct_change, threshold)[2])),
                     !.pct_change = Append(@, SeriesMax(pct_change))]

RECURSIVE StepChangesColumns(_, _, _, _)
StepChangesColumns(acc, item, j, cfg) ==
    IF j > Len(required_columns) \/ acc.exc # "" THEN acc
    ELSE StepChangesColumns(StepChangesColumn(acc, item, required_columns[j], cfg),
                            item, j + 1, cfg)

RECURSIVE StepChangesLoop(_, _, _, _)
StepChangesLoop(items, i, acc, cfg) ==
    IF i > Len(items) \/ acc.exc # "" THEN acc
    ELSE StepChangesLoop(items, i + 1, StepChangesColumns(acc, items[i], 1, cfg), cfg)

StepChangesRows(acc) ==
    [i \in 1..Len(acc.instruments) |->
        [instruments |-> acc.instruments[i], col_name |-> acc.col_name[i],
         date |-> acc.date[i], pct_change |-> acc.pct_change[i]]]

StepChangesFrame(acc) ==
    FrameOrNone(acc,
                {Len(acc.instruments), Len(acc.col_name), Len(acc.date),
                 Len(acc.pct_change)},
                IF acc.exc = "" THEN StepChangesRows(acc) ELSE <<>>)

check_large_step_changes(d, cfg, instruments) ==
    StepChangesFrame(StepChangesLoop(DataToCheck(d, instruments), 1, StepChangesInit, cfg))

(***************************************************************************)
(* check_required_columns                                                  *)
(***************************************************************************)
\* [column for column in required_columns if column not in df.columns]
MissingRequiredColumns(df) ==
    SelectSeq(required_columns, LAMBDA column : column \notin Columns(df))

RequiredColumnsInit == [instruments |-> <<>>, missing_col |-> <<>>, exc |-> ""]

\* The body of the loop: one key appended, the missing columns concatenated.
RequiredColumnsBody(acc, item) ==
    IF \A j \in 1..Len(required_columns) : required_columns[j] \in Columns(item.df)
    THEN acc
    ELSE [acc EXCEPT !.instruments = Append(@, item.key),
                     !.missing_col = @ \o MissingRequiredColumns(item.df)]

RECURSIVE RequiredColumnsLoop(_, _, _)
RequiredColumnsLoop(items, i, acc) ==
    IF i > Len(items) THEN acc
    ELSE RequiredColumnsLoop(items, i + 1, RequiredColumnsBody(acc, items[i]))

RequiredColumnsRows(acc) ==
    IF Len(acc.instruments) # Len(acc.missing_col) THEN <<>>
    ELSE [i \in 1..Len(acc.instruments) |->
            [instruments |-> acc.instruments[i], missing_col |-> acc.missing_col[i]]]

RequiredColumnsFrame(acc) ==
    FrameOrNone(acc, {Len(acc.instruments), Len(acc.missing_col)},
                RequiredColumnsRows(acc))

check_required_columns(d, instruments) ==
    RequiredColumnsFrame(RequiredColumnsLoop(DataToCheck(d, instruments), 1,
                                             RequiredColumnsInit))

(***************************************************************************)
(* check_missing_factor                                                    *)
(***************************************************************************)
\* The test with its last literal left out.
ExemptTwoCodes(filename) ==
    \/ IsSubstring(Code000300, filename)
    \/ IsSubstring(Code000903, filename)

\* "000300" in filename or "000903" in filename or "000905" in filename
Exempt(filename) ==
    \/ IsSubstring(Code000300, filename)
    \/ IsSubstring(Code000903, filename)
    \/ IsSubstring(Code000905, filename)

InList(x, list) == \E i \in 1..Len(list) : list[i] = x

MissingFactorInit ==
    [instruments |-> <<>>, missing_factor_col |-> <<>>, missing_factor_data |-> <<>>,
     exc |-> ""]

\* The first if of the loop body.
MissingFactorCol(acc, item) ==
    IF "factor" \notin Columns(item.df)
    THEN [acc EXCEPT !.instruments = Append(@, item.key),
                     !.missing_factor_col = Append(@, TRUE)]
    ELSE acc

\* The second if of the loop body: df["factor"] raises KeyError without the column.
MissingFactorData(acc, item) ==
    IF "factor" \notin Columns(item.df) THEN [acc EXCEPT !.exc = "KeyError"]
    ELSE IF ~IsnullAll(item.df, "factor") THEN acc
    ELSE IF InList(item.key, acc.instruments)
         THEN [acc EXCEPT !.missing_factor_data = Append(@, TRUE)]
         ELSE [acc EXCEPT !.instruments = Append(@, item.key),
                          !.missing_factor_col = Append(@, FALSE),
                          !.missing_factor_data = Append(@, TRUE)]

MissingFactorBody(acc, item) ==
    IF Exempt(item.key) THEN acc
    ELSE MissingFactorData(MissingFactorCol(acc, item), item)

RECURSIVE MissingFactorLoop(_, _, _)
MissingFactorLoop(items, i, acc) ==
    IF i > Len(items) \/ acc.exc # "" THEN acc
    ELSE MissingFactorLoop(items, i + 1, MissingFactorBody(acc, items[i]))

MissingFactorRows(acc) ==
    IF \/ Len(acc.instruments) # Len(acc.missing_factor_col)
       \/ Len(acc.instruments) # Len(acc.missing_factor_data)
    THEN <<>>
    ELSE [i \in 1..Len(acc.instruments) |->
            [instruments |-> acc.instruments[i],
             missing_factor_col |-> acc.missing_factor_col[i],
             missing_factor_data |-> acc.missing_factor_data[i]]]

MissingFactorFrame(acc) ==
    FrameOrNone(acc,
                {Len(acc.instruments), Len(acc.missing_factor_col),
                 Len(acc.missing_factor_data)},
                MissingFactorRows(acc))

check_missing_factor(d, instruments) ==
    MissingFactorFrame(MissingFactorLoop(DataToCheck(d, instruments), 1, MissingFactorInit))

(***************************************************************************)
(* The logger and the console.                                             *)
(***************************************************************************)
\* logger.info(msg), logger.warning(msg): one record of the log.
Info(msg) == [level |-> "INFO", msg |-> msg, args |-> {}]

Warning(msg) == [level |-> "WARNING", msg |-> msg, args |-> {}]

\* The else branch that ends the checks: logger.info(...) before return None.
CheckLog(res, msg) == IF res.kind = "None" THEN <<Info(msg)>> ELSE <<>>

(***************************************************************************)
(* check_missing_trading_days                                              *)
(*                                                                         *)
(* A value of an index level or of the calendar is <<kind, v>>: the        *)
(* integer v of a RangeIndex (kind "int") or the Timestamp of the day v of *)
(* January 2020 (kind "Timestamp").                                        *)
(***************************************************************************)
\* pd.to_datetime: an integer is read as nanoseconds after 1970-01-01, a
\* Timestamp is kept.
ToDatetime(x) == IF x[1] = "int" THEN <<0, x[2]>> ELSE <<x[2], 0>>

\* The order of two Timestamps.
Before(a, b) == a[1] < b[1] \/ (a[1] = b[1] /\ a[2] < b[2])

\* sorted(list(missing_dates))
RECURSIVE SortedTimestamps(_)
SortedTimestamps(S) ==
    IF S = {} THEN <<>>
    ELSE LET first == CHOOSE x \in S : \A y \in S : x = y \/ Before(x, y)
         IN <<first>> \o SortedTimestamps(S \ {first})

\* sorted(list(all_dates)): the values of one kind, by their value.
RECURSIVE SortedDates(_)
SortedDates(S) ==
    IF S = {} THEN <<>>
    ELSE LET first == CHOOSE x \in S : \A y \in S : x[2] <= y[2]
         IN <<first>> \o SortedDates(S \ {first})

Epoch == <<"1", "9", "7", "0", "-", "0", "1", "-", "0", "1">>

\* d.strftime("%Y-%m-%d") of a Timestamp: the time of day is dropped.
StrftimeTimestamp(ts) == IF ts[1] = 0 THEN Epoch ELSE Strftime(ts[1])

DigitValue(c) == CHOOSE v \in 0..9 : Digits[v + 1] = c

\* pd.to_datetime of a line of the calendar file, "2020-01-DD": the day.
ParseDate(line) == 10 * DigitValue(line[9]) + DigitValue(line[10])

\* The decimal digits of a natural number.
RECURSIVE IntStr(_)
IntStr(n) ==
    IF n < 10 THEN <<Digits[n + 1]>>
    ELSE IntStr(n \div 10) \o <<Digits[(n % 10) + 1]>>

\* The quotient num / den * 100 in hundredths, rounded to the nearest, a tie
\* to the even one, as the format specification .2f rounds.
Hundredths(num, den) ==
    LET q == (num * 10000) \div den
        r == (num * 10000) % den
    IN IF 2 * r > den \/ (2 * r = den /\ q % 2 = 1) THEN q + 1 ELSE q

\* f"{coverage_ratio:.2f}%" with coverage_ratio = num / den * 100
FormatPercent(num, den) ==
    LET h == Hundredths(num, den)
    IN IntStr(h \div 100) \o <<".", Digits[((h % 100) \div 10) + 1], Digits[(h % 10) + 1], "%">>

\* lines 239-242 and 270-274: every pandas index has get_level_values, so
\* the dates are level 1 of a MultiIndex and level 0, the index itself, of
\* any other index.
LevelDates(df) ==
    IF df.nlevels > 1 THEN [i \in 1..NRows(df) |-> <<"Timestamp", df.index[i][2]>>]
    ELSE [i \in 1..NRows(df) |-> <<"int", df.index[i]>>]

\* all_dates after the loop of the fallback.
AllDates(items) ==
    UNION {{LevelDates(items[i].df)[r] : r \in 1..NRows(items[i].df)} : i \in 1..Len(items)}

\* The calendar resource as the try block finds it: status "loaded" (the
\* file exists and is read), "absent" (os.path.exists is False) or "error"
\* (an exception inside the try block); lines are the stripped lines read.
CalendarFile(status, lines) == [status |-> status, lines |-> lines]

\* trading_days = pd.to_datetime([line.strip() for line in f.readlines()])
LoadCalendar(cal) ==
    [i \in 1..Len(cal.lines) |-> <<"Timestamp", ParseDate(cal.lines[i])>>]

\* The union method of the else branch and of the except branch.
UnionMethod(items, warning) ==
    LET all_dates == AllDates(items)
    IN IF all_dates = {}
       THEN [found |-> FALSE, trading_days |-> <<>>,
             log |-> <<warning, Info("No date information found in the data.")>>]
       ELSE [found |-> TRUE, trading_days |-> SortedDates(all_dates),
             log |-> <<warning>>]

\* The try statement: trading_days, or found = FALSE where the code returns None.
TradingDays(items, cal) ==
    CASE cal.status = "loaded" ->
            [found |-> TRUE, trading_days |-> LoadCalendar(cal),
             log |-> <<Info("Loaded trading days")>>]
      [] cal.status = "absent" ->
            UnionMethod(items, Warning("Trading calendar file not found, falling back to union method"))
      [] OTHER ->
            UnionMethod(items, Warning("Failed to load trading calendar, falling back to union method"))

TradingDaysInit ==
    [instruments |-> <<>>, missing_trading_days |-> <<>>, total_missing_days |-> <<>>,
     coverage_ratio |-> <<>>, exc |-> ""]

\* missing_dates_list[:5], each formatted.
FirstFive(missing_dates_list) ==
    [i \in 1..Min({5, Len(missing_dates_list)}) |-> StrftimeTimestamp(missing_dates_list[i])]

\* The body of the loop that checks one item against trading_days.
\* The body with the coverage computed for every item, missing dates or not.
TradingDaysBodyEveryItem(acc, item, trading_days) ==
    LET stock_dates == {ToDatetime(LevelDates(item.df)[r]) : r \in 1..NRows(item.df)}
        trading_days_set == {ToDatetime(trading_days[t]) : t \in 1..Len(trading_days)}
        missing_dates == trading_days_set \ stock_dates
    IN IF Len(trading_days) = 0 THEN [acc EXCEPT !.exc = "ZeroDivisionError"]
       ELSE [acc EXCEPT
                !.instruments = Append(@, item.key),
                !.missing_trading_days = Append(@, FirstFive(SortedTimestamps(missing_dates))),
                !.total_missing_days = Append(@, Cardinality(missing_dates)),
                !.coverage_ratio =
                    Append(@, FormatPercent(Len(trading_days) - Cardinality(missing_dates),
                                            Len(trading_days)))]

TradingDaysBody(acc, item, trading_days) ==
    LET stock_dates == {ToDatetime(LevelDates(item.df)[r]) : r \in 1..NRows(item.df)}
        trading_days_set == {ToDatetime(trading_days[t]) : t \in 1..Len(trading_days)}
        missing_dates == trading_days_set \ stock_dates
    IN IF missing_dates = {} THEN acc
       ELSE IF Len(trading_days) = 0 THEN [acc EXCEPT !.exc = "ZeroDivisionError"]
       ELSE [acc EXCEPT
                !.instruments = Append(@, item.key),
                !.missing_trading_days = Append(@, FirstFive(SortedTimestamps(missing_dates))),
                !.total_missing_days = Append(@, Cardinality(missing_dates)),
                !.coverage_ratio =
                    Append(@, FormatPercent(Len(trading_days) - Cardinality(missing_dates),
                                            Len(trading_days)))]

RECURSIVE TradingDaysLoop(_, _, _, _)
TradingDaysLoop(items, i, acc, trading_days) ==
    IF i > Len(items) \/ acc.exc # "" THEN acc
    ELSE TradingDaysLoop(items, i + 1, TradingDaysBody(acc, items[i], trading_days),
                         trading_days)

TradingDaysRows(acc) ==
    [i \in 1..Len(acc.instruments) |->
        [instruments |-> acc.instruments[i],
         missing_trading_days |-> acc.missing_trading_days[i],
         total_missing_days |-> acc.total_missing_days[i],
         coverage_ratio |-> acc.coverage_ratio[i]]]

\* The call: what it returns or raises, and what it logs.
TradingDaysFrame(acc) ==
    FrameOrNone(acc,
                {Len(acc.instruments), Len(acc.missing_trading_days),
                 Len(acc.total_missing_days), Len(acc.coverage_ratio)},
                IF acc.exc = "" THEN TradingDaysRows(acc) ELSE <<>>)

\* Lines 288-293: the report or None, after the log of the calendar step.
TradingDaysReport(res, resolved) ==
    [result |-> res,
     log |-> resolved.log \o
             CheckLog(res, "All stocks have complete trading days coverage.")]

\* Lines 245-247, 262-264 and 269-293, once the calendar step is through.
TradingDaysCoverage(data_to_check, resolved) ==
    IF ~resolved.found THEN [result |-> ReturnNone, log |-> resolved.log]
    ELSE TradingDaysReport(
             TradingDaysFrame(TradingDaysLoop(data_to_check, 1, TradingDaysInit,
                                              resolved.trading_days)),
             resolved)

\* Lines 214-293 on the filtered dict.
TradingDaysOf(data_to_check, cal) ==
    IF data_to_check = <<>>
    THEN [result |-> ReturnNone,
          log |-> <<Info("No data to check for trading days coverage.")>>]
    ELSE TradingDaysCoverage(data_to_check, TradingDays(data_to_check, cal))

\* The check with its fallback calendar taken from the whole dataset.
MissingTradingDaysOverAll(d, cal, instruments) ==
    IF DataToCheck(d, instruments) = <<>> THEN TradingDaysOf(<<>>, cal)
    ELSE TradingDaysCoverage(DataToCheck(d, instruments), TradingDays(d, cal))

MissingTradingDays(d, cal, instruments) ==
    TradingDaysOf(DataToCheck(d, instruments), cal)

check_missing_trading_days(d, cal, instruments) ==
    MissingTradingDays(d, cal, instruments).result

(***************************************************************************)
(* check_data                                                              *)
(***************************************************************************)
\* The five calls of check_data, in its order.
CheckNames ==
    <<"check_missing_data", "check_large_step_changes", "check_required_columns",
      "check_missing_factor", "check_missing_trading_days">>

\* What each check logs when it finds nothing.
NoProblemMessage(op) ==
    CASE op = "check_missing_data" -> "There are no missing data."
      [] op = "check_large_step_changes" ->
            "There are no large step changes in the OHLCV column above the threshold."
      [] op = "check_required_columns" -> "The columns (OLHCV) are complete and not missing."
      [] op = "check_missing_factor" -> "The factor column already exists and is not empty."

\* One check called by name: its result and its log.
Logged(op, res) == [result |-> res, log |-> CheckLog(res, NoProblemMessage(op))]

RunCheck(op, d, cfg, cal, instruments) ==
    CASE op = "check_missing_data" -> Logged(op, check_missing_data(d, cfg, instruments))
      [] op = "check_large_step_changes" ->
            Logged(op, check_large_step_changes(d, cfg, instruments))
      [] op = "check_required_columns" -> Logged(op, check_required_columns(d, instruments))
      [] op = "check_missing_factor" -> Logged(op, check_missing_factor(d, instruments))
      [] op = "check_missing_trading_days" -> MissingTradingDays(d, cal, instruments)

\* Lines 304-308: the checks one after the other; an exception raised by
\* one of them leaves check_data and the later checks are not called.
\* check_data's record of one call: what it gave, what it logged, and the
\* exception that ends check_data if it raised.
AfterCheck(acc, op, run) ==
    [ran |-> Append(acc.ran, [op |-> op, result |-> run.result]),
     log |-> acc.log \o run.log,
     exc |-> run.result.exc]

RECURSIVE RunChecks(_, _, _, _, _, _)
RunChecks(j, acc, d, cfg, cal, instruments) ==
    IF j > Len(CheckNames) \/ acc.exc # "" THEN acc
    ELSE RunChecks(j + 1,
                   AfterCheck(acc, CheckNames[j],
                              RunCheck(CheckNames[j], d, cfg, cal, instruments)),
                   d, cfg, cal, instruments)

\* missing_instruments = [inst for inst in instruments if inst not in self.data]
MissingInstruments(d, instruments) ==
    IF instruments.given THEN instruments.keys \ KeysOf(d) ELSE {}

\* The warning logged before a report is printed.
ReportWarning(op) ==
    CASE op = "check_missing_data" -> "There is missing data."
      [] op = "check_large_step_changes" -> "The OHLCV column has large step changes."
      [] op = "check_required_columns" -> "Columns (OLHCV) are missing."
      [] op = "check_missing_factor" -> "The factor column does not exist or is empty"
      [] op = "check_missing_trading_days" -> "Stocks are missing data on trading days."

\* print(f"Summary of data health check ({count} files checked):") and the rule.
Header(count) == [line |-> "header", count |-> count, op |-> "", rows |-> <<>>]

\* print(<the report of check op>)
Section(op, rows) == [line |-> "report", count |-> 0, op |-> op, rows |-> rows]

\* Lines 309-332 for the results in ran: what is printed and what is logged.
RECURSIVE Summary(_, _, _)
Summary(ran_, j, acc) ==
    IF j > Len(ran_) THEN acc
    ELSE IF ran_[j].result.kind # "DataFrame" THEN Summary(ran_, j + 1, acc)
    ELSE Summary(ran_, j + 1,
                 [stdout |-> Append(acc.stdout, Section(ran_[j].op, ran_[j].result.rows)),
                  log |-> Append(acc.log, Warning(ReportWarning(ran_[j].op)))])

\* Lines 300-302.
WarnMissing(missing_instruments) ==
    IF missing_instruments # {}
    THEN <<[level |-> "WARNING", msg |-> "Instruments not found in data",
            args |-> missing_instruments]>>
    ELSE <<>>

\* Lines 316-332 have run.
Printed(run, summary) ==
    [result |-> ReturnNone, ran |-> run.ran, log |-> summary.log,
     stdout |-> summary.stdout]

\* Lines 309-332, after the five calls (or the exception of one of them).
Reported(run, count) ==
    IF run.exc # ""
    THEN [result |-> Raise(run.exc), ran |-> run.ran, log |-> run.log, stdout |-> <<>>]
    ELSE IF \A j \in 1..Len(run.ran) : run.ran[j].result.kind = "None"
    THEN [result |-> ReturnNone, ran |-> run.ran, log |-> run.log, stdout |-> <<>>]
    ELSE Printed(run, Summary(run.ran, 1,
                              [stdout |-> <<Header(count)>>, log |-> run.log]))

check_data(d, cfg, cal, instruments) ==
    Reported(RunChecks(1,
                       [ran |-> <<>>,
                        log |-> WarnMissing(MissingInstruments(d, instruments)),
                        exc |-> ""],
                       d, cfg, cal, instruments),
             Len(DataToCheck(d, instruments)))

(***************************************************************************)
(* The dataset after construction.                                         *)
(*   csv_path: one item per *.csv file of the directory, keyed by the file *)
(*   name, its DataFrame as pd.read_csv gives it: a RangeIndex and the     *)
(*   columns the file has.                                                 *)
(*   qlib_dir: one item per listed instrument, its DataFrame as D.features *)
(*   gives it: an (instrument, datetime) MultiIndex and the six requested  *)
(*   fields, renamed.                                                      *)
(***************************************************************************)
KeyAAPL == <<"A", "A", "P", "L">>
KeyMSFT == <<"M", "S", "F", "T">>
KeySZ000905 == <<"S", "Z">> \o Code000905

FileNames == {KeyAAPL \o DotCsv, KeyMSFT \o DotCsv, Code000905 \o DotCsv}

InstrumentNames == {KeyAAPL, KeySZ000905, Code000300}

KeyUniverse(m) == IF m = "csv" THEN FileNames ELSE InstrumentNames

\* The orders in which at most MaxInstruments distinct keys enter self.data.
\* A directory may hold no .csv file; load_qlib_data does not return for an
\* empty instrument list (print(df) after the loop), so a dataset built
\* from a provider has at least one item.
KeyOrders(m) ==
    {s \in UNION {[1..n -> KeyUniverse(m)] :
                     n \in (IF m = "qlib" THEN 1 ELSE 0)..MaxInstruments} :
        \A i, j \in 1..Len(s) : i # j => s[i] # s[j]}

\* pd.read_csv(os.path.join(csv_path, filename))
ReadCsv(content) ==
    [nlevels |-> 1,
     index |-> [i \in 1..Len(content.dates) |-> i - 1],
     cols |-> content.cols]

\* D.features([instrument], required_fields, freq=self.freq) and the rename
Features(instrument, content) ==
    [nlevels |-> 2,
     index |-> [i \in 1..Len(content.dates) |-> <<instrument, content.dates[i]>>],
     cols |-> content.cols]

LoadItem(m, key, content) ==
    [key |-> key,
     df |-> IF m = "csv" THEN ReadCsv(content) ELSE Features(key, content)]

\* The datasets of mode m whose tables hold contents of the family Contents:
\* a csv file may lack columns, a provider table has all six.
Datasets(m, Contents) ==
    LET usable == IF m = "csv" THEN Contents
                  ELSE {c \in Contents : DOMAIN c.cols = AllColumns}
    IN UNION {{[i \in 1..Len(order) |-> LoadItem(m, order[i], pick[i])] :
                  pick \in [1..Len(order) -> usable]} : order \in KeyOrders(m)}

\* Defaults of __init__: 0.5, 3 and 0.
Half == <<1, 2>>
Three == <<3, 1>>

DefaultConfig ==
    [large_step_threshold_price |-> Half, large_step_threshold_volume |-> Three,
     missing_data_num |-> 0]

Days(n) == [i \in 1..n |-> i]

\* A column of MaxRows cells, the first k of them NaN, the others 1.
NullFirst(k) == [i \in 1..MaxRows |-> IF i <= k THEN NaN ELSE <<1>>]

\* A column of MaxRows cells: a, then b, then c to the end.
Steps(a, b, c) == [i \in 1..MaxRows |-> IF i = 1 THEN a ELSE IF i = 2 THEN b ELSE c]

Content(cols) == [dates |-> Days(MaxRows), cols |-> cols]

Prefix(k) == {required_columns[i] : i \in 1..k}

\* Schema family: tables lacking the first j required columns, factor full
\* or entirely NaN.
SchemaContents ==
    {Content([c \in AllColumns \ Prefix(j) |->
                 IF c = "factor" THEN NullFirst(k) ELSE NullFirst(0)]) :
        j \in {0, 1, 2, Len(required_columns)}, k \in {0, MaxRows}}

\* Factor family: the required columns full; factor absent, entirely NaN,
\* NaN in its first row only, or full.
FactorContents ==
    {Content([c \in AllColumns \ f |->
                 IF c = "factor" THEN NullFirst(k) ELSE NullFirst(0)]) :
        f \in {{}, {"factor"}}, k \in {0, 1, MaxRows}}

\* Null family: ko, kv and kf NaN cells in open, volume and factor, in a
\* table that has all six columns or lacks high.
NullCounts ==
    {<<0, 0, 0>>, <<0, 2, 0>>, <<1, MaxRows, 0>>, <<0, 0, MaxRows>>}

NullContents ==
    {Content([c \in AllColumns \ missing |->
                 CASE c = "open" -> NullFirst(k[1])
                   [] c = "volume" -> NullFirst(k[2])
                   [] c = "factor" -> NullFirst(k[3])
                   [] OTHER -> NullFirst(0)]) :
        missing \in {{}, {"high"}}, k \in NullCounts}

\* Step family: close and volume both hold the series a, b, c, c, ...;
\* the other columns are constant.
StepSeries ==
    {<<<<2>>, <<3>>, <<3>>>>,      \* 0.5
     <<<<5>>, <<5>>, <<8>>>>,      \* 0, then 0.6
     <<<<1>>, <<4>>, <<4>>>>,      \* 3.0
     <<<<5>>, <<1>>, <<5>>>>,      \* 0.8, then 4.0
     <<<<2>>, NaN, <<4>>>>,        \* a gap
     <<<<0>>, <<0>>, <<1>>>>}      \* 0/0, then 1/0

StepContents ==
    {Content([c \in AllColumns |->
                 IF c \in {"close", "volume"} THEN Steps(s[1], s[2], s[3])
                 ELSE NullFirst(0)]) : s \in StepSeries}

Tolerances == {[DefaultConfig EXCEPT !.missing_data_num = n] : n \in 0..MaxTolerance}

\* A table with one row for each of the given days and the six columns
\* full; a csv file holds the day of each row in a column named date.
DatedContent(m, dates) ==
    [dates |-> dates,
     cols |-> [c \in (IF m = "csv" THEN AllColumns \cup {"date"} ELSE AllColumns) |->
                  [i \in 1..Len(dates) |-> IF c = "date" THEN <<dates[i]>> ELSE <<1>>]]]

\* The days first, first + 1, ..., last.
DaysFrom(first, last) == [i \in 1..(last - first + 1) |-> first + i - 1]

\* Calendar family: no row, all days but the last two, all days.
CalendarContents(m) ==
    {DatedContent(m, Days(n)) : n \in {0, MaxDays - 2, MaxDays}}

\* Listing family: all days but the last two, all days but the first two.
ListingContents(m) ==
    {DatedContent(m, Days(MaxDays - 2)), DatedContent(m, DaysFrom(3, MaxDays))}

\* The lines of calendars/<freq>.txt: one date a line, ascending.
CalendarLines(n) == [i \in 1..n |-> Strftime(i)]

\* The calendar resource a constructed object meets: without qlib.init the
\* provider_uri is the default and the file is looked up under the working
\* directory; after qlib.init it is the provider's file.
DefaultCalendar(m) ==
    IF m = "csv" THEN CalendarFile("absent", <<>>)
    ELSE CalendarFile("loaded", CalendarLines(MaxRows))

Calendars(m) ==
    IF m = "csv"
    THEN {CalendarFile("absent", <<>>), CalendarFile("loaded", CalendarLines(MaxDays))}
    ELSE {CalendarFile("loaded", CalendarLines(MaxDays)), CalendarFile("absent", <<>>),
          CalendarFile("error", <<>>)}

(***************************************************************************)
(* __init__.  An argument is None or a path; a path is given with what the *)
(* process finds there: csv_path a file, or a directory and its entries in *)
(* os.listdir order; qlib_dir a provider and the instruments it lists, in  *)
(* order.  An entry is [name, readable, content]: reading it (pd.read_csv, *)
(* D.features) raises when readable is FALSE.                              *)
(***************************************************************************)
NoPath == [kind |-> "None", entries |-> <<>>]

NotADirectory == [kind |-> "file", entries |-> <<>>]

Directory(entries) == [kind |-> "dir", entries |-> entries]

Provider(entries) == [kind |-> "provider", entries |-> entries]

Entry(name, readable, content) == [name |-> name, readable |-> readable, content |-> content]

\* The truth value of an argument: None is false, a path is true.
Given(path) == path.kind # "None"

\* The assertions that would let both sources through.
AssertsEither(csv_path, qlib_dir) ==
    /\ Given(csv_path) \/ Given(qlib_dir)
    /\ Given(csv_path) => csv_path.kind = "dir"

\* The three assertions of __init__ hold.
Asserts(csv_path, qlib_dir) ==
    /\ Given(csv_path) \/ Given(qlib_dir)
    /\ ~(Given(csv_path) /\ Given(qlib_dir))
    /\ Given(csv_path) => csv_path.kind = "dir"

\* files = [f for f in os.listdir(csv_path) if f.endswith(".csv")]
CsvFiles(csv_path) == SelectSeq(csv_path.entries, LAMBDA e : EndsWith(e.name, DotCsv))

\* print(df)
PrintFrame(df) == [line |-> "frame", count |-> NRows(df), op |-> "", rows |-> <<>>]

\* What a loader has done so far: the items stored in self.data, what it
\* printed, and the exception that ended it ("" if none).
Loaded(items, printed, exc) == [data |-> items, stdout |-> printed, exc |-> exc]

\* for filename in files: df = pd.read_csv(...); self.data[filename] = df
RECURSIVE LoadCsv(_, _, _)
LoadCsv(files, i, acc) ==
    IF i > Len(files) \/ acc.exc # "" THEN acc
    ELSE LoadCsv(files, i + 1,
                 IF files[i].readable
                 THEN Loaded(Append(acc.data, LoadItem("csv", files[i].name, files[i].content)),
                             <<>>, "")
                 ELSE Loaded(acc.data, <<>>, "ParserError"))

\* for instrument in instrument_list: df = D.features(...); df.rename(...);
\* self.data[instrument] = df
RECURSIVE LoadFeatures(_, _, _)
LoadFeatures(instrument_list, i, acc) ==
    IF i > Len(instrument_list) \/ acc.exc # "" THEN acc
    ELSE LoadFeatures(instrument_list, i + 1,
                      IF instrument_list[i].readable
                      THEN Loaded(Append(acc.data,
                                         LoadItem("qlib", instrument_list[i].name,
                                                  instrument_list[i].content)),
                                  <<>>, "")
                      ELSE Loaded(acc.data, <<>>, "ValueError"))

\* print(df) after the loop: df is the table of the last instrument, and is
\* not bound when the loop body never ran.
PrintLast(acc) ==
    IF acc.exc # "" THEN acc
    ELSE IF acc.data = <<>> THEN Loaded(acc.data, <<>>, "UnboundLocalError")
    ELSE Loaded(acc.data, <<PrintFrame(acc.data[Len(acc.data)].df)>>, "")

load_qlib_data(instrument_list) ==
    PrintLast(LoadFeatures(instrument_list, 1, Loaded(<<>>, <<>>, "")))

\* __init__(csv_path, qlib_dir): what self.data holds when it ends and the
\* exception that leaves it, if any.
Constructed(csv_path, qlib_dir) ==
    IF ~Asserts(csv_path, qlib_dir) THEN Loaded(<<>>, <<>>, "AssertionError")
    ELSE IF Given(csv_path) THEN LoadCsv(CsvFiles(csv_path), 1, Loaded(<<>>, <<>>, ""))
    ELSE IF Given(qlib_dir) THEN load_qlib_data(qlib_dir.entries)
    ELSE Loaded(<<>>, <<>>, "")

\* Sources: a file or an instrument is readable, with a table that has all
\* six columns or (a file only) no factor column, or it is not readable.
KeyREADME == <<"R", "E", "A", "D", "M", "E">>

FullTable == Content([c \in AllColumns |-> NullFirst(0)])

NoFactorTable == Content([c \in RequiredSet |-> NullFirst(0)])

DirEntries ==
    {Entry(KeyAAPL \o DotCsv, TRUE, c) : c \in {FullTable, NoFactorTable}}
        \cup {Entry(KeyMSFT \o DotCsv, r, FullTable) : r \in BOOLEAN}
        \cup {Entry(KeyREADME, TRUE, FullTable)}

ProviderEntries ==
    {Entry(KeyAAPL, TRUE, FullTable)}
        \cup {Entry(KeySZ000905, r, FullTable) : r \in BOOLEAN}

\* At most MaxInstruments entries with different names, in any order.
Listings(entries) ==
    {s \in UNION {[1..n -> entries] : n \in 0..MaxInstruments} :
        \A i, j \in 1..Len(s) : i # j => s[i].name # s[j].name}

CsvPathArgs == {NoPath, NotADirectory} \cup {Directory(l) : l \in Listings(DirEntries)}

QlibDirArgs == {NoPath} \cup {Provider(l) : l \in Listings(ProviderEntries)}

(***************************************************************************)
(* The checks as operations on the object.                                 *)
(***************************************************************************)
\* The instruments argument: None, [], one key, or every key that can occur.
FilterArgs(m) ==
    {NoFilter, Filter({}), Filter(KeyUniverse(m))}
        \cup {Filter({k}) : k \in KeyUniverse(m)}

\* The instruments argument of check_data: None, every key that can occur
\* (those the dataset lacks among them), or one key.
RunnerFilterArgs(m) ==
    {NoFilter, Filter(KeyUniverse(m)),
     Filter({IF m = "csv" THEN KeyAAPL \o DotCsv ELSE KeyAAPL})}

\* A check called on its own: its result, its log, nothing printed.
Called(op, instruments) ==
    \E run \in {RunCheck(op, data, config, calendar, instruments)} :
        /\ call' = [op |-> op, instruments |-> instruments]
        /\ result' = run.result
        /\ ran' = <<[op |-> op, result |-> run.result]>>
        /\ log' = run.log
        /\ stdout' = <<>>
        /\ data' = SelfData(data, instruments)
        /\ UNCHANGED <<mode, config, calendar>>

CheckMissingData(instruments) == Called("check_missing_data", instruments)

CheckLargeStepChanges(instruments) == Called("check_large_step_changes", instruments)

CheckRequiredColumns(instruments) == Called("check_required_columns", instruments)

CheckMissingFactor(instruments) == Called("check_missing_factor", instruments)

CheckMissingTradingDays(instruments) == Called("check_missing_trading_days", instruments)

CheckData(instruments) ==
    \E run \in {check_data(data, config, calendar, instruments)} :
        /\ call' = [op |-> "check_data", instruments |-> instruments]
        /\ result' = run.result
        /\ ran' = run.ran
        /\ log' = run.log
        /\ stdout' = run.stdout
        /\ data' = SelfData(data, instruments)
        /\ UNCHANGED <<mode, config, calendar>>

\* The object after __init__, before any call.
NoCallYet ==
    /\ call = [op |-> "", instruments |-> NoFilter]
    /\ result = ReturnNone
    /\ ran = <<>>
    /\ log = <<>>
    /\ stdout = <<>>

InitWith(Modes, Contents, Configs) ==
    /\ mode \in Modes
    /\ data \in Datasets(mode, Contents)
    /\ config \in Configs
    /\ calendar = DefaultCalendar(mode)
    /\ NoCallYet

Modes == {"csv", "qlib"}

Init == InitWith(Modes, SchemaContents, {DefaultConfig})

InitFactor == InitWith(Modes, FactorContents, {DefaultConfig})

InitNulls == InitWith(Modes, NullContents, Tolerances)

InitSteps == InitWith(Modes, StepContents, {DefaultConfig})

\* Construction from qlib_dir only.
InitProvider == InitWith({"qlib"}, FactorContents \cup NullContents, Tolerances)

\* Tables that differ in their dates, under each state of the calendar resource.
InitCalendar ==
    /\ mode \in Modes
    /\ data \in Datasets(mode, CalendarContents(mode))
    /\ config = DefaultConfig
    /\ calendar \in Calendars(mode)
    /\ NoCallYet

\* Tables that start or end on different days, the calendar resource missing.
InitListing ==
    /\ mode \in Modes
    /\ data \in Datasets(mode, ListingContents(mode))
    /\ config = DefaultConfig
    /\ calendar \in {CalendarFile("absent", <<>>), CalendarFile("error", <<>>)}
    /\ NoCallYet

\* The calendar file of the provider exists and holds no line, or one line.
ShortCalendars ==
    {CalendarFile("loaded", <<>>), CalendarFile("loaded", CalendarLines(1)),
     CalendarFile("absent", <<>>)}

InitShortCalendar ==
    /\ mode \in Modes
    /\ data \in Datasets(mode, CalendarContents(mode))
    /\ config = DefaultConfig
    /\ calendar \in ShortCalendars
    /\ NoCallYet

Next ==
    \/ \E instruments \in FilterArgs(mode) : CheckMissingData(instruments)
    \/ \E instruments \in FilterArgs(mode) : CheckLargeStepChanges(instruments)
    \/ \E instruments \in FilterArgs(mode) : CheckRequiredColumns(instruments)
    \/ \E instruments \in FilterArgs(mode) : CheckMissingFactor(instruments)
    \/ \E instruments \in FilterArgs(mode) : CheckMissingTradingDays(instruments)
    \/ \E instruments \in RunnerFilterArgs(mode) : CheckData(instruments)

Spec == Init /\ [][Next]_vars

SpecFactor == InitFactor /\ [][Next]_vars

SpecNulls == InitNulls /\ [][Next]_vars

SpecSteps == InitSteps /\ [][Next]_vars

SpecProvider == InitProvider /\ [][Next]_vars

SpecCalendar == InitCalendar /\ [][Next]_vars

SpecShortCalendar == InitShortCalendar /\ [][Next]_vars

SpecListing == InitListing /\ [][Next]_vars

(***************************************************************************)
(* The object from its construction on.                                    *)
(***************************************************************************)
\* The process before DataHealthChecker(...) is called: no object, and no
\* qlib.init yet.
InitNew ==
    /\ mode = ""
    /\ data = <<>>
    /\ config = DefaultConfig
    /\ calendar = CalendarFile("absent", <<>>)
    /\ NoCallYet

\* DataHealthChecker(csv_path=..., qlib_dir=...).  When __init__ raises no
\* object comes to exist (mode stays ""); data then shows what had been
\* stored in self.data when the exception left.
Construct(csv_path, qlib_dir) ==
    /\ mode = ""
    /\ \E made \in {Constructed(csv_path, qlib_dir)} :
          /\ mode' = IF made.exc # "" THEN ""
                     ELSE IF Given(csv_path) THEN "csv" ELSE "qlib"
          /\ data' = made.data
          /\ result' = IF made.exc # "" THEN Raise(made.exc) ELSE ReturnNone
          /\ stdout' = made.stdout
    /\ call' = [op |-> "__init__", instruments |-> NoFilter,
                csv_path |-> csv_path, qlib_dir |-> qlib_dir]
    /\ calendar' = IF Asserts(csv_path, qlib_dir) /\ ~Given(csv_path)
                   THEN DefaultCalendar("qlib") ELSE calendar
    /\ config' = DefaultConfig
    /\ ran' = <<>>
    /\ log' = <<>>

NextObject ==
    \/ \E csv_path \in CsvPathArgs, qlib_dir \in QlibDirArgs : Construct(csv_path, qlib_dir)
    \/ mode \in Modes /\ \E instruments \in FilterArgs(mode) : CheckMissingData(instruments)
    \/ mode \in Modes /\ \E instruments \in FilterArgs(mode) : CheckLargeStepChanges(instruments)
    \/ mode \in Modes /\ \E instruments \in FilterArgs(mode) : CheckRequiredColumns(instruments)
    \/ mode \in Modes /\ \E instruments \in FilterArgs(mode) : CheckMissingFactor(instruments)
    \/ mode \in Modes /\ \E instruments \in FilterArgs(mode) : CheckMissingTradingDays(instruments)
    \/ mode \in Modes /\ \E instruments \in RunnerFilterArgs(mode) : CheckData(instruments)

SpecObject == InitNew /\ [][NextObject]_vars

(***************************************************************************)
(* Vocabulary of the properties.                                           *)
(***************************************************************************)
\* The items the last call scanned.
Scope == DataToCheck(data, call.instruments)

\* The rows of the returned report that belong to `key`.
RowsOf(key) == {r \in 1..Len(result.rows) : result.rows[r].instruments = key}

\* The instrument a key stands for: a file's base name without ".csv".
InstrumentOf(key) ==
    IF EndsWith(key, DotCsv) THEN SubSeq(key, 1, Len(key) - Len(DotCsv)) ELSE key

\* The excluded keys: the index codes named in check_missing_factor.
ExcludedKeys == {Code000300, Code000903, Code000905}

\* The number of NaN cells of a column that the table has.
NullCells(df, c) == Cardinality({i \in 1..NRows(df) : df.cols[c][i] = NaN})

\* The change of column s at row t is defined and strictly above thr = n/d:
\* |s[t] - s[t-1]| / s[t-1] > n/d, both cells present.
ChangeAbove(s, t, thr) ==
    /\ t > 1
    /\ s[t] # NaN
    /\ s[t - 1] # NaN
    /\ Abs(s[t][1] - s[t - 1][1]) * thr[2] > thr[1] * s[t - 1][1]

\* The change of column s at row t is defined (not 0/0).
ChangeDefined(s, t) ==
    /\ t > 1
    /\ s[t] # NaN
    /\ s[t - 1] # NaN
    /\ (s[t - 1][1] # 0 \/ s[t][1] # 0)

\* The change of column s at row t is at most, or exactly, the quotient q.
ChangeAtMost(s, t, q) == Abs(s[t][1] - s[t - 1][1]) * q[2] <= q[1] * s[t - 1][1]

ChangeEquals(s, t, q) ==
    /\ Abs(s[t][1] - s[t - 1][1]) * q[2] = q[1] * s[t - 1][1]
    /\ (q[2] = 0) = (s[t - 1][1] = 0)

\* The largest change of column s is strictly above thr.
MaxAbove(s, thr) == \E t \in 1..Len(s) : ChangeAbove(s, t, thr)

(***************************************************************************)
(* C1.  Every in-scope instrument that is not exempt and whose table has   *)
(* no factor column gets one row with missing_factor_col = TRUE in the     *)
(* report check_missing_factor returns; the call does not raise.           *)
(***************************************************************************)
C1_MissingFactorColReported ==
    call.op = "check_missing_factor" =>
        \A i \in 1..Len(Scope) :
            (~Exempt(Scope[i].key) /\ "factor" \notin Columns(Scope[i].df)) =>
                /\ result.kind = "DataFrame"
                /\ Cardinality(RowsOf(Scope[i].key)) = 1
                /\ \A r \in RowsOf(Scope[i].key) : result.rows[r].missing_factor_col

(***************************************************************************)
(* C2.  check_required_columns returns a report with exactly one row per   *)
(* in-scope instrument lacking a required column, and that row lists all   *)
(* of the instrument's missing columns, however many they are.             *)
(***************************************************************************)
C2_OneRowListsAllMissing ==
    call.op = "check_required_columns" =>
        \A i \in 1..Len(Scope) :
            ~(RequiredSet \subseteq Columns(Scope[i].df)) =>
                /\ result.kind = "DataFrame"
                /\ Cardinality(RowsOf(Scope[i].key)) = 1
                /\ \A r \in RowsOf(Scope[i].key) :
                      RequiredSet \ Columns(Scope[i].df) \subseteq {result.rows[r].missing_col}

(***************************************************************************)
(* C3.  When no cell of open, high, low, close, volume is NaN in any table *)
(* of the dataset, check_missing_data returns None, whatever the other     *)
(* columns hold and whatever missing_data_num is.                          *)
(***************************************************************************)
C3_NoRequiredNullGivesNone ==
    (/\ call.op = "check_missing_data"
     /\ \A i \in 1..Len(data) : \A c \in RequiredSet \cap Columns(data[i].df) :
            NullCells(data[i].df, c) = 0)
        => result.kind = "None"

(***************************************************************************)
(* C4.  An in-scope instrument with more than missing_data_num NaN cells   *)
(* in one of the five columns has exactly one row in the report of         *)
(* check_missing_data, and the row holds the NaN count of each of the five *)
(* columns.                                                                *)
(***************************************************************************)
C4_RowHoldsTheFiveCounts ==
    call.op = "check_missing_data" =>
        \A i \in 1..Len(Scope) :
            (\E c \in RequiredSet \cap Columns(Scope[i].df) :
                NullCells(Scope[i].df, c) > config.missing_data_num) =>
                /\ result.kind = "DataFrame"
                /\ Cardinality(RowsOf(Scope[i].key)) = 1
                /\ \A r \in RowsOf(Scope[i].key) :
                      \A c \in RequiredSet \cap Columns(Scope[i].df) :
                          result.rows[r][c] = NullCells(Scope[i].df, c)

(***************************************************************************)
(* C5.  check_missing_data returns None or a report for every dataset,     *)
(* also when a table lacks some of the five columns.                       *)
(***************************************************************************)
C5_MissingDataNeverRaises ==
    call.op = "check_missing_data" => result.kind # "raise"

(***************************************************************************)
(* C6.  check_large_step_changes has a row for an in-scope (instrument,    *)
(* column) exactly when the column's largest change is strictly above the  *)
(* column's threshold: none at the threshold, one above it.                *)
(***************************************************************************)
C6_RowIffMaxAboveThreshold ==
    call.op = "check_large_step_changes" =>
        \A i \in 1..Len(Scope) : \A c \in RequiredSet \cap Columns(Scope[i].df) :
            MaxAbove(Scope[i].df.cols[c], ThresholdOf(config, c))
                <=> (/\ result.kind = "DataFrame"
                     /\ \E r \in RowsOf(Scope[i].key) : result.rows[r].col_name = c)

C8_RowPerColumnAboveItsThreshold ==
    call.op = "check_large_step_changes" =>
        LET expected ==
                {kc \in KeysOf(Scope) \X RequiredSet :
                    \E i \in 1..Len(Scope) :
                        /\ Scope[i].key = kc[1]
                        /\ kc[2] \in Columns(Scope[i].df)
                        /\ MaxAbove(Scope[i].df.cols[kc[2]],
                                    IF kc[2] = "volume"
                                    THEN config.large_step_threshold_volume
                                    ELSE config.large_step_threshold_price)}
            got == {<<result.rows[r].instruments, result.rows[r].col_name>> :
                        r \in 1..Len(result.rows)}
        IN /\ result.kind # "raise"
           /\ got = expected
           /\ Cardinality(got) = Len(result.rows)

(***************************************************************************)
(* C9.  No row of a report of check_missing_factor belongs to an           *)
(* instrument of the excluded key set, whether its factor column is        *)
(* absent, entirely NaN or populated.                                      *)
(***************************************************************************)
C9_ExcludedNeverReported ==
    call.op = "check_missing_factor" =>
        \A r \in 1..Len(result.rows) :
            InstrumentOf(result.rows[r].instruments) \notin ExcludedKeys

\* A report was returned although an excluded instrument with no factor
\* column was in scope.
C9_Witness ==
    /\ call.op = "check_missing_factor"
    /\ result.kind = "DataFrame"
    /\ \E i \in 1..Len(Scope) :
          /\ InstrumentOf(Scope[i].key) \in ExcludedKeys
          /\ "factor" \notin Columns(Scope[i].df)

\* The same with the excluded instrument's factor entirely NaN.
C9_WitnessNull ==
    /\ call.op = "check_missing_factor"
    /\ result.kind = "DataFrame"
    /\ \E i \in 1..Len(Scope) :
          /\ InstrumentOf(Scope[i].key) \in ExcludedKeys
          /\ "factor" \in Columns(Scope[i].df)
          /\ NullCells(Scope[i].df, "factor") = NRows(Scope[i].df)

(***************************************************************************)
(* C10.  Only members of the excluded key set are exempt: every in-scope   *)
(* instrument that is not a member and whose factor column is present and  *)
(* entirely NaN has a row with missing_factor_data = TRUE.                 *)
(***************************************************************************)
C10_NonMemberAllNullReported ==
    call.op = "check_missing_factor" =>
        \A i \in 1..Len(Scope) :
            (/\ InstrumentOf(Scope[i].key) \notin ExcludedKeys
             /\ "factor" \in Columns(Scope[i].df)
             /\ NullCells(Scope[i].df, "factor") = NRows(Scope[i].df)) =>
                /\ result.kind = "DataFrame"
                /\ \E r \in RowsOf(Scope[i].key) : result.rows[r].missing_factor_data

(***************************************************************************)
(* Vocabulary of the properties about dates, the runner and the log.       *)
(***************************************************************************)
\* The dates of a table's rows, as Timestamps: the date of each compound
\* row key, or for a file's table the day its date column gives each row.
DatesOf(df) ==
    IF df.nlevels > 1 THEN {<<df.index[i][2], 0>> : i \in 1..NRows(df)}
    ELSE IF "date" \in Columns(df)
         THEN {<<df.cols["date"][i][1], 0>> : i \in 1..NRows(df)}
         ELSE {}

\* The dates listed in the calendar resource.
AuthoritativeDates ==
    {<<d, 0>> : d \in {e \in 1..31 : \E l \in 1..Len(calendar.lines) :
                                        calendar.lines[l] = Strftime(e)}}

\* The union of the dates of the tables in scope.
ScopeDates == UNION {DatesOf(Scope[i].df) : i \in 1..Len(Scope)}

\* The calendar the check is to use: the authoritative one when it loads,
\* else the one derived from the scope.
ExpectedCalendar == IF calendar.status = "loaded" THEN AuthoritativeDates ELSE ScopeDates

\* The number a digit string denotes.
RECURSIVE DigitsValue(_)
DigitsValue(s) ==
    IF s = <<>> THEN 0
    ELSE 10 * DigitsValue(SubSeq(s, 1, Len(s) - 1)) + DigitValue(s[Len(s)])

\* A string of the form <digits>.<two digits>% and its value in hundredths.
IsPercent(s) == Len(s) >= 5 /\ s[Len(s)] = "%" /\ s[Len(s) - 3] = "."

PercentHundredths(s) ==
    100 * DigitsValue(SubSeq(s, 1, Len(s) - 4)) + DigitsValue(SubSeq(s, Len(s) - 2, Len(s) - 1))

\* h hundredths is the quotient num / den * 100 rounded to two decimals.
IsRounded(h, num, den) ==
    /\ 2 * (h * den - num * 10000) <= den
    /\ 2 * (num * 10000 - h * den) <= den

\* The keys of the dataset that pass the filter of the last call.
KeysInScope ==
    {k \in KeysOf(data) : ~call.instruments.given \/ k \in call.instruments.keys}

\* The checks of the last call that returned a report.
Reports == {j \in 1..Len(ran) : ran[j].result.kind = "DataFrame"}

\* An instrument the factor check is to flag: not exempt, its factor
\* column absent or entirely NaN.
Flagged(item) ==
    /\ ~Exempt(item.key)
    /\ \/ "factor" \notin Columns(item.df)
       \/ NullCells(item.df, "factor") = NRows(item.df)

C12_RowOfMissingDatesAndCoverage ==
    call.op = "check_missing_trading_days" =>
        \A i \in 1..Len(Scope) :
            LET missing == ExpectedCalendar \ DatesOf(Scope[i].df)
                n == Cardinality(missing)
                size == Cardinality(ExpectedCalendar)
            IN IF n = 0 THEN RowsOf(Scope[i].key) = {}
               ELSE /\ result.kind = "DataFrame"
                    /\ Cardinality(RowsOf(Scope[i].key)) = 1
                    /\ \A r \in RowsOf(Scope[i].key) :
                          LET row == result.rows[r]
                          IN /\ row.total_missing_days = n
                             /\ Len(row.missing_trading_days) = Min({5, n})
                             /\ \A k \in 1..Len(row.missing_trading_days) :
                                   \E m \in missing :
                                       /\ Cardinality({x \in missing : Before(x, m)}) = k - 1
                                       /\ row.missing_trading_days[k] = Strftime(m[1])
                             /\ IsPercent(row.coverage_ratio)
                             /\ IsRounded(PercentHundredths(row.coverage_ratio),
                                          size - n, size)

(***************************************************************************)
(* C13.  Every coverage ratio check_missing_trading_days reports is within *)
(* 0 and 100, and the ratio of an instrument whose dates include every     *)
(* date of the calendar is 100.00%.                                        *)
(***************************************************************************)
C13_CoverageWithinRangeAndFull ==
    (call.op = "check_missing_trading_days" /\ result.kind = "DataFrame") =>
        \A r \in 1..Len(result.rows) :
            LET ratio == result.rows[r].coverage_ratio
            IN /\ IsPercent(ratio)
               /\ PercentHundredths(ratio) >= 0
               /\ PercentHundredths(ratio) <= 10000
               /\ \A i \in 1..Len(Scope) :
                     (/\ Scope[i].key = result.rows[r].instruments
                      /\ ExpectedCalendar \subseteq DatesOf(Scope[i].df))
                         => PercentHundredths(ratio) = 10000

(***************************************************************************)
(* C14.  check_missing_trading_days never raises.  When the authoritative  *)
(* calendar loads, the call compares the tables with it and logs no        *)
(* warning; when it does not load, the call logs a warning and compares    *)
(* the tables with the union of the dates of the tables in scope: an       *)
(* instrument has a row exactly when it lacks a date of that calendar, and *)
(* the row counts the dates it lacks.                                      *)
(***************************************************************************)
C14_AuthoritativeElseUnionOfScope ==
    (call.op = "check_missing_trading_days" /\ Scope # <<>>) =>
        /\ result.kind # "raise"
        /\ (calendar.status = "loaded") <=> (\A l \in 1..Len(log) : log[l].level # "WARNING")
        /\ \A i \in 1..Len(Scope) :
              LET lacking == ExpectedCalendar \ DatesOf(Scope[i].df)
              IN /\ (lacking # {}) <=> (RowsOf(Scope[i].key) # {})
                 /\ \A r \in RowsOf(Scope[i].key) :
                       result.rows[r].total_missing_days = Cardinality(lacking)

(***************************************************************************)
(* C15.  check_missing_trading_days returns None when no table of the      *)
(* dataset passes the filter, and when the calendar does not load and no   *)
(* table in scope has a row to take a date from.                           *)
(***************************************************************************)
C15_NothingToCheckGivesNone ==
    call.op = "check_missing_trading_days" =>
        /\ KeysInScope = {} => result.kind = "None"
        /\ (calendar.status # "loaded" /\ \A i \in 1..Len(Scope) : NRows(Scope[i].df) = 0)
              => result.kind = "None"

\* The fallback found no date in a scope that is not empty.
C15_Witness ==
    /\ call.op = "check_missing_trading_days"
    /\ calendar.status # "loaded"
    /\ Scope # <<>>
    /\ \A i \in 1..Len(Scope) : NRows(Scope[i].df) = 0
    /\ result.kind = "None"

\* The filter let no table of a dataset through while the calendar, loaded,
\* lists dates that a table of the dataset lacks.
C15_WitnessEmptyScope ==
    /\ call.op = "check_missing_trading_days"
    /\ calendar.status = "loaded"
    /\ KeysInScope = {}
    /\ \E i \in 1..Len(data) : ~(AuthoritativeDates \subseteq DatesOf(data[i].df))
    /\ result.kind = "None"

(***************************************************************************)
(* C16.  No check returns a report without rows: what a check returns,     *)
(* called on its own or by check_data, is None or a report with at least   *)
(* one row, for every dataset and every filter.                            *)
(***************************************************************************)
C16_NoEmptyReport ==
    /\ result.kind = "DataFrame" => Len(result.rows) >= 1
    /\ \A j \in 1..Len(ran) :
          ran[j].result.kind = "DataFrame" => Len(ran[j].result.rows) >= 1

\* check_data, with a filter that selects nothing from a dataset with
\* tables, got None from each of the five checks.
C16_Witness ==
    /\ call.op = "check_data"
    /\ data # <<>>
    /\ KeysInScope = {}
    /\ Len(ran) = Len(CheckNames)
    /\ \A j \in 1..Len(ran) : ran[j].result.kind = "None"

\* check_data got a report from one check and None from another.
C16_WitnessReport ==
    /\ call.op = "check_data"
    /\ \E j \in 1..Len(ran) : ran[j].result.kind = "DataFrame"
    /\ \E j \in 1..Len(ran) : ran[j].result.kind = "None"

(***************************************************************************)
(* C17.  check_data calls each of the five checks exactly once before it   *)
(* ends, whatever the tables lack or hold.                                 *)
(***************************************************************************)
C17_EachCheckRunsOnce ==
    call.op = "check_data" =>
        \A j \in 1..Len(CheckNames) :
            Cardinality({k \in 1..Len(ran) : ran[k].op = CheckNames[j]}) = 1

(***************************************************************************)
(* C18.  check_data prints the summary header exactly when one of the five *)
(* checks returned a report; the header comes first and counts the keys of *)
(* the dataset that pass the filter; each report is printed once and       *)
(* nothing is printed for a check that returned None.                      *)
(***************************************************************************)
C18_HeaderIffSomeReport ==
    call.op = "check_data" =>
        LET headers == {k \in 1..Len(stdout) : stdout[k].line = "header"}
            sections == {k \in 1..Len(stdout) : stdout[k].line = "report"}
        IN /\ (headers # {}) <=> (Reports # {})
           /\ headers \subseteq {1}
           /\ \A k \in headers : stdout[k].count = Cardinality(KeysInScope)
           /\ \A j \in Reports :
                 Cardinality({k \in sections : /\ stdout[k].op = ran[j].op
                                               /\ stdout[k].rows = ran[j].result.rows}) = 1
           /\ \A k \in sections : \E j \in Reports : ran[j].op = stdout[k].op

(***************************************************************************)
(* C19.  When the filter of check_data names keys the dataset lacks, a     *)
(* warning lists exactly those keys, all five checks still run, and no row *)
(* of any report belongs to a key outside the filter's present keys.       *)
(***************************************************************************)
C19_AbsentKeysWarnedAndSkipped ==
    (/\ call.op = "check_data"
     /\ call.instruments.given
     /\ call.instruments.keys \ KeysOf(data) # {}) =>
        /\ \E l \in 1..Len(log) :
              /\ log[l].level = "WARNING"
              /\ log[l].msg = "Instruments not found in data"
              /\ log[l].args = call.instruments.keys \ KeysOf(data)
        /\ {ran[k].op : k \in 1..Len(ran)} = {CheckNames[j] : j \in 1..Len(CheckNames)}
        /\ \A k \in 1..Len(ran) : \A r \in 1..Len(ran[k].result.rows) :
              ran[k].result.rows[r].instruments \in KeysInScope

(***************************************************************************)
(* C20.  No call changes the dataset or the configuration: the keys, the   *)
(* tables with every cell, and the thresholds stay as construction left    *)
(* them through every sequence of checks with any filters.                 *)
(***************************************************************************)
C20_ChecksLeaveDatasetAndConfig == [][data' = data /\ config' = config]_vars

\* check_data has run with a filter that selects a part of the dataset and
\* has printed a report.
C20_Witness ==
    /\ call.op = "check_data"
    /\ call.instruments.given
    /\ Len(Scope) >= 1
    /\ Len(Scope) < Len(data)
    /\ stdout # <<>>

C22_KeyIsBaseNameWithoutExtension ==
    (call.op = "__init__" /\ mode = "csv") =>
        \A f \in 1..Len(call.csv_path.entries) :
            LET file == call.csv_path.entries[f]
            IN EndsWith(file.name, DotCsv) =>
                  \E i \in 1..Len(data) :
                      /\ data[i].key = InstrumentOf(file.name)
                      /\ data[i].df.cols = file.content.cols
                      /\ DataToCheck(data, Filter({InstrumentOf(file.name)})) = <<data[i]>>

(***************************************************************************)
(* C23.  Construction succeeds only with exactly one of csv_path and       *)
(* qlib_dir given.  With neither, with both, or with a csv_path that is    *)
(* not a directory, it raises with no table loaded and no object made, so  *)
(* that no check runs.                                                     *)
(***************************************************************************)
C23_ExactlyOneSourceOrFail ==
    /\ mode = "" => call.op \in {"", "__init__"}
    /\ call.op = "__init__" =>
          /\ result.kind # "raise" => Given(call.csv_path) # Given(call.qlib_dir)
          /\ (\/ Given(call.csv_path) = Given(call.qlib_dir)
              \/ call.csv_path.kind = "file")
                => (result = Raise("AssertionError") /\ data = <<>> /\ mode = "")

\* Both sources were given, each with something to load.
C23_Witness ==
    /\ call.op = "__init__"
    /\ call.csv_path.kind = "dir"
    /\ CsvFiles(call.csv_path) # <<>>
    /\ Given(call.qlib_dir)
    /\ call.qlib_dir.entries # <<>>
    /\ result.kind = "raise"

\* The path given as csv_path is not a directory.
C23_WitnessNotADirectory ==
    /\ call.op = "__init__"
    /\ call.csv_path.kind = "file"
    /\ ~Given(call.qlib_dir)
    /\ result.kind = "raise"

(***************************************************************************)
(* C24.  When reading one file of the directory, or one instrument of the  *)
(* provider, fails during construction, construction still completes: the  *)
(* dataset holds the table of every other file or instrument, the one that *)
(* failed is left out, and a warning is logged.                            *)
(***************************************************************************)
C24_LoadFailureSkipsOneInstrument ==
    LET sources == IF Given(call.csv_path)
                   THEN SelectSeq(call.csv_path.entries, LAMBDA e : EndsWith(e.name, DotCsv))
                   ELSE call.qlib_dir.entries
    IN (/\ call.op = "__init__"
        /\ Given(call.csv_path) # Given(call.qlib_dir)
        /\ call.csv_path.kind # "file"
        /\ \E s \in 1..Len(sources) : ~sources[s].readable)
          => /\ result.kind # "raise"
             /\ mode \in Modes
             /\ {InstrumentOf(data[i].key) : i \in 1..Len(data)}
                   = {InstrumentOf(sources[s].name) :
                         s \in {t \in 1..Len(sources) : sources[t].readable}}
             /\ \E l \in 1..Len(log) : log[l].level = "WARNING"

(***************************************************************************)
(* C30.  Construction from a provider completes for every instrument list  *)
(* the provider returns and serves, the empty list included: the dataset   *)
(* then holds one table per listed instrument, in order, each with the     *)
(* columns open, close, low, high, volume and factor.                      *)
(***************************************************************************)
C30_ProviderConstructionCompletes ==
    (/\ call.op = "__init__"
     /\ ~Given(call.csv_path)
     /\ Given(call.qlib_dir)
     /\ \A e \in 1..Len(call.qlib_dir.entries) : call.qlib_dir.entries[e].readable)
       => /\ result.kind # "raise"
          /\ mode = "qlib"
          /\ Len(data) = Len(call.qlib_dir.entries)
          /\ \A i \in 1..Len(data) :
                /\ data[i].key = call.qlib_dir.entries[i].name
                /\ Columns(data[i].df) = AllColumns

(***************************************************************************)
(* C25.  In check_large_step_changes a NaN cell leaves the change          *)
(* undefined at its own row and at the row after it.  Neither row counts   *)
(* as above the threshold or toward the largest change, and no change is   *)
(* taken against the last cell before the gap: a column is flagged, or the *)
(* check ends otherwise than with None, only for a change between two      *)
(* adjacent cells that are both present.                                   *)
(***************************************************************************)
\* Across a gap of NaN cells, the cell after the gap differs from the last
\* cell before it by more than thr.
CarriedAbove(s, thr) ==
    \E u, t \in 1..Len(s) :
        /\ u + 1 < t
        /\ s[u] # NaN
        /\ s[t] # NaN
        /\ \A v \in (u + 1)..(t - 1) : s[v] = NaN
        /\ Abs(s[t][1] - s[u][1]) * thr[2] > thr[1] * s[u][1]

C25_NullMakesChangeUndefined ==
    call.op = "check_large_step_changes" =>
        /\ \A r \in 1..Len(result.rows) :
              \E i \in 1..Len(Scope) :
                  LET row == result.rows[r]
                      s == Scope[i].df.cols[row.col_name]
                  IN /\ Scope[i].key = row.instruments
                     /\ MaxAbove(s, ThresholdOf(config, row.col_name))
                     /\ \E t \in 1..Len(s) :
                           ChangeDefined(s, t) /\ ChangeEquals(s, t, row.pct_change)
        /\ result.kind # "None" =>
              \E i \in 1..Len(Scope) : \E c \in RequiredSet \cap Columns(Scope[i].df) :
                  MaxAbove(Scope[i].df.cols[c], ThresholdOf(config, c))

\* The check has scanned only tables whose close and volume jump across a
\* gap by more than the thresholds allow (2, NaN, 4 is +100%), and has
\* returned None.
C25_Witness ==
    /\ call.op = "check_large_step_changes"
    /\ Len(Scope) >= 1
    /\ \A i \in 1..Len(Scope) :
          /\ CarriedAbove(Scope[i].df.cols["close"], config.large_step_threshold_price)
          /\ ~MaxAbove(Scope[i].df.cols["close"], config.large_step_threshold_price)
    /\ result.kind = "None"

(***************************************************************************)
(* C26.  check_large_step_changes does not raise on a flagged column,      *)
(* whether the rows of the table are keyed by a date alone or by the       *)
(* compound key (instrument, date): every flagged column gets a row with   *)
(* the date of its first row above the threshold.                          *)
(***************************************************************************)
\* The date that keys row t of a table, in either shape of the row key.
KeyDate(df, t) == IF df.nlevels > 1 THEN df.index[t][2] ELSE df.index[t]

C26_DateForBothKeyShapes ==
    call.op = "check_large_step_changes" =>
        /\ result.kind # "raise"
        /\ \A i \in 1..Len(Scope) : \A c \in RequiredSet \cap Columns(Scope[i].df) :
              LET df == Scope[i].df
                  thr == ThresholdOf(config, c)
              IN MaxAbove(df.cols[c], thr) =>
                    \E r \in RowsOf(Scope[i].key) : \E t \in 1..NRows(df) :
                        /\ result.rows[r].col_name = c
                        /\ ChangeAbove(df.cols[c], t, thr)
                        /\ \A u \in 1..(t - 1) : ~ChangeAbove(df.cols[c], u, thr)
                        /\ result.rows[r].date = Strftime(KeyDate(df, t))

(***************************************************************************)
(* C27.  With the fallback calendar, check_missing_trading_days takes the  *)
(* calendar from the tables in scope of the call alone: the call gives     *)
(* what an unfiltered call gives on a dataset made of those tables only,   *)
(* and no date that occurs in out-of-scope tables alone is reported        *)
(* missing.  With the authoritative calendar the row of an instrument (or  *)
(* its absence) is the same under a filter that contains it as in the      *)
(* unfiltered run.                                                         *)
(***************************************************************************)
\* The row the unfiltered run gives for `key`, as a set: empty or one row.
UnfilteredRows(key) ==
    LET all == MissingTradingDays(data, calendar, NoFilter).result
    IN {all.rows[r] : r \in {q \in 1..Len(all.rows) : all.rows[q].instruments = key}}

\* The dates that occur in tables out of scope of the last call and in no
\* table in scope.
OutOfScopeOnlyDates ==
    UNION {DatesOf(data[i].df) : i \in {j \in 1..Len(data) : data[j].key \notin KeysInScope}}
        \ ScopeDates

C27_FallbackCalendarFollowsScope ==
    call.op = "check_missing_trading_days" =>
        /\ calendar.status # "loaded" =>
              /\ result = MissingTradingDays(Scope, calendar, NoFilter).result
              /\ \A r \in 1..Len(result.rows) :
                    \A d \in 1..Len(result.rows[r].missing_trading_days) :
                        \A ts \in OutOfScopeOnlyDates :
                            StrftimeTimestamp(ts) # result.rows[r].missing_trading_days[d]
        /\ calendar.status = "loaded" =>
              /\ result.kind # "raise"
              /\ \A k \in KeysInScope :
                    {result.rows[r] : r \in RowsOf(k)} = UnfilteredRows(k)

\* Fallback: the filter selects one instrument of two; the unfiltered run
\* gives a row for it, with dates that the other table alone holds, and the
\* filtered run gives none.
C27_Witness ==
    /\ call.op = "check_missing_trading_days"
    /\ calendar.status # "loaded"
    /\ call.instruments.given
    /\ Len(Scope) = 1
    /\ Len(data) = 2
    /\ OutOfScopeOnlyDates # {}
    /\ UnfilteredRows(Scope[1].key) # {}
    /\ result.kind = "None"

\* Authoritative calendar: the filter selects one instrument of two and its
\* row is the row of the unfiltered run.
C27_WitnessAuthoritative ==
    /\ call.op = "check_missing_trading_days"
    /\ calendar.status = "loaded"
    /\ call.instruments.given
    /\ Len(Scope) = 1
    /\ Len(data) = 2
    /\ result.kind = "DataFrame"
    /\ {result.rows[r] : r \in RowsOf(Scope[1].key)} = UnfilteredRows(Scope[1].key)

(***************************************************************************)
(* C28.  For check_missing_data, check_large_step_changes,                 *)
(* check_required_columns and check_missing_factor, filtering commutes     *)
(* with checking: what the call gives under a filter is what the           *)
(* unfiltered call gives, restricted to the rows of the instruments of the *)
(* filter, in the order of the dataset, and None when no row remains.      *)
(***************************************************************************)
\* A result restricted to the rows of the given keys.
Restricted(res, keys) ==
    IF res.kind # "DataFrame" THEN res
    ELSE LET rows == SelectSeq(res.rows, LAMBDA row : row.instruments \in keys)
         IN IF rows = <<>> THEN ReturnNone ELSE ReturnFrame(rows)

C28_FilterCommutesWithCheck ==
    call.op \in {"check_missing_data", "check_large_step_changes",
                 "check_required_columns", "check_missing_factor"} =>
        result = Restricted(RunCheck(call.op, data, config, calendar, NoFilter).result,
                            KeysInScope)

(***************************************************************************)
(* C29.  check_missing_trading_days never divides by zero: every row of    *)
(* its report has at least one missing date, hence a calendar of at least  *)
(* one date; and with a calendar file that exists and holds no date it     *)
(* returns None, whatever the dataset and the filter.                      *)
(***************************************************************************)
\* The results of check_missing_trading_days in the last call: its own, or
\* the one check_data got from it.
TradingDaysResults ==
    (IF call.op = "check_missing_trading_days" THEN {result} ELSE {})
        \cup {ran[j].result : j \in {q \in 1..Len(ran) : ran[q].op = "check_missing_trading_days"}}

C29_NeverDividesByZero ==
    \A res \in TradingDaysResults :
        /\ res.exc # "ZeroDivisionError"
        /\ \A r \in 1..Len(res.rows) :
              /\ res.rows[r].total_missing_days >= 1
              /\ TradingDays(Scope, calendar).trading_days # <<>>
        /\ calendar = CalendarFile("loaded", <<>>) => res = ReturnNone

\* The calendar file holds no date, the tables in scope hold rows, and the
\* call returns None.
C29_Witness ==
    /\ call.op = "check_missing_trading_days"
    /\ calendar = CalendarFile("loaded", <<>>)
    /\ \E i \in 1..Len(Scope) : NRows(Scope[i].df) > 0
    /\ result = ReturnNone

\* A row with the ratio computed over a calendar of one date.
C29_WitnessOneDate ==
    /\ call.op = "check_missing_trading_days"
    /\ calendar = CalendarFile("loaded", CalendarLines(1))
    /\ result.kind = "DataFrame"
    /\ result.rows[1].total_missing_days = 1

=============================================================================
